---- MODULE Spec2Model ----
(***************************************************************************)
(* Model of src/utils/ftp-fuse-mount.py: FtpFuseOperations, the FUSE       *)
(* operations that translate filesystem calls into FTP sessions.           *)
(*                                                                         *)
(* One action per FUSE handler.  The FUSE dispatcher runs with             *)
(* nothreads=True (line 283), so a handler runs to completion before the   *)
(* next one starts: an action is a whole handler call.  The FTP server and *)
(* ftplib are the environment of the handlers: the reply to every command  *)
(* is drawn with \E from the replies ftplib can turn into a return or an   *)
(* exception.                                                              *)
(***************************************************************************)
EXTENDS Integers, Sequences, FiniteSets, TLC

\* ------------------------------------------------------------ bounds
MaxLen == 2      \* longest remote object / written buffer, in bytes
MaxLines == 2    \* most lines in one LIST reply
MaxOpen == 2     \* sessions that may be open at once before the model stops opening more
BlockSize == 1   \* bytes per block handed to the retrbinary callback

\* ------------------------------------------------------------ text
\* Text is a sequence of one-character strings.
SP == " "

IsSpace(c) == c = SP

\* a decimal digit: what int() reads
IsDecimal(c) == c \in {"0", "1", "2", "3", "4", "5", "6", "7", "8", "9"}

\* str.isdigit() of one character: the decimal digits and the other characters
\* of Unicode type Digit, of which the model has the superscript two
SUP2 == "^2"

IsDigit(c) == IsDecimal(c) \/ c = SUP2

DigitVal(c) ==
    CASE c = "0" -> 0 [] c = "1" -> 1 [] c = "2" -> 2 [] c = "3" -> 3 [] c = "4" -> 4
      [] c = "5" -> 5 [] c = "6" -> 6 [] c = "7" -> 7 [] c = "8" -> 8 [] c = "9" -> 9

RECURSIVE LStrip(_)
\* str.lstrip(): drop leading whitespace.
LStrip(s) == IF s # <<>> /\ IsSpace(Head(s)) THEN LStrip(Tail(s)) ELSE s

RECURSIVE RStrip(_)
RStrip(s) ==
    IF s # <<>> /\ IsSpace(s[Len(s)]) THEN RStrip(SubSeq(s, 1, Len(s) - 1)) ELSE s

\* str.strip()
Strip(s) == RStrip(LStrip(s))

RECURSIVE TokenLen(_)
\* length of the longest whitespace-free prefix
TokenLen(s) == IF s = <<>> \/ IsSpace(Head(s)) THEN 0 ELSE 1 + TokenLen(Tail(s))

RECURSIVE Split(_, _)
\* str.split(None, maxsplit): split on runs of whitespace, at most maxsplit
\* times; the remainder after the last split keeps its inner and trailing
\* whitespace.  maxsplit = -1 is split() without a limit.
Split(s, maxsplit) ==
    LET t == LStrip(s) IN
    IF t = <<>> THEN <<>>
    ELSE IF maxsplit = 0 THEN <<t>>
    ELSE LET n == TokenLen(t) IN
         <<SubSeq(t, 1, n)>> \o Split(SubSeq(t, n + 1, Len(t)), maxsplit - 1)

\* str.isdigit(): non-empty and every character a digit
IsDigitStr(s) == s # <<>> /\ \A i \in 1..Len(s) : IsDigit(s[i])

\* the digit strings int() accepts
IsDecimalStr(s) == s # <<>> /\ \A i \in 1..Len(s) : IsDecimal(s[i])

RECURSIVE DigitsVal(_)
DigitsVal(s) == IF s = <<>> THEN 0 ELSE 10 * DigitsVal(SubSeq(s, 1, Len(s) - 1)) + DigitVal(s[Len(s)])

\* s.startswith(p)
StartsWith(s, p) == Len(s) >= Len(p) /\ SubSeq(s, 1, Len(p)) = p

\* p in s (substring test)
Contains(s, p) == \E i \in 1..(Len(s) - Len(p) + 1) : SubSeq(s, i, i + Len(p) - 1) = p

\* ------------------------------------------------------------ errors
ENOENT == "ENOENT"
EACCES == "EACCES"
EIO == "EIO"
ECONNREFUSED == "ECONNREFUSED"
OK == "OK"

\* An exception value: its class, the text str(e) gives, and (FuseOSError) its errno.
NoExc == [kind |-> "None", msg |-> <<>>, errno |-> ""]

error_perm(m) == [kind |-> "error_perm", msg |-> m, errno |-> ""]

error_temp(m) == [kind |-> "error_temp", msg |-> m, errno |-> ""]

OSErr == [kind |-> "OSError", msg |-> <<>>, errno |-> ""]

AttributeError == [kind |-> "AttributeError", msg |-> <<>>, errno |-> ""]

ValueError == [kind |-> "ValueError", msg |-> <<>>, errno |-> ""]

FuseOSError(e) == [kind |-> "FuseOSError", msg |-> <<>>, errno |-> e]

\* Reply texts of the server (ftplib raises error_perm on 5xx, error_temp on 4xx,
\* with the reply line as the exception text).
R550 == <<"5", "5", "0">>
R530 == <<"5", "3", "0">>
R553 == <<"5", "5", "3">>
R530x == <<"5", "3", "0", " ", "/", "5", "5", "0">>
R421 == <<"4", "2", "1">>

PermReplies == {R550, R530, R553, R530x}

\* What a command of the session can raise instead of returning.
Faults == {error_perm(m) : m \in PermReplies} \cup {error_temp(R421), OSErr}

\* The status of a reply line is its first three characters.
Status(m) == SubSeq(m, 1, 3)

\* ------------------------------------------------------------ _get_ftp_connection
\* lines 45-54: connect, then login; any exception of either becomes
\* FuseOSError(ECONNREFUSED).  rc, rl: what connect and login raise (NoExc: return).
_get_ftp_connection(rc, rl) ==
    IF rc # NoExc \/ rl # NoExc THEN FuseOSError(ECONNREFUSED) ELSE NoExc

\* ------------------------------------------------------------ _ftp_list_to_files
S_IFDIR == 16384
S_IFREG == 32768

EmptyDict == [keys |-> <<>>, info |-> <<>>]

Range(q) == {q[i] : i \in 1..Len(q)}

\* files[name] = entry on an insertion-ordered dict: a new key goes last, an
\* existing key keeps its place and gets the new value.
DictSet(d, name, entry) ==
    [keys |-> IF name \in Range(d.keys) THEN d.keys ELSE Append(d.keys, name),
     info |-> [i \in 1..(IF name \in Range(d.keys) THEN Len(d.keys) ELSE Len(d.keys) + 1) |->
                 LET k == IF i <= Len(d.keys) THEN d.keys[i] ELSE name IN
                 IF k = name THEN entry ELSE d.info[i]]]

\* lines 69-85: the entry of one 9-field line
ParseEntry(parts) ==
    LET permissions == parts[1]
        is_dir == StartsWith(permissions, <<"d">>)
    IN [is_dir |-> is_dir,
        size |-> IF IsDigitStr(parts[5]) THEN DigitsVal(parts[5]) ELSE 0,   \* line 70
        permissions |-> permissions,
        mode |-> IF is_dir THEN S_IFDIR ELSE S_IFREG,
        nlink |-> IF is_dir THEN 2 ELSE 1]

\* line 70: int(parts[4]) raises ValueError on a string isdigit() accepts and
\* int() does not
SizeRaises(parts) == IsDigitStr(parts[5]) /\ ~IsDecimalStr(parts[5])

RECURSIVE ParseLines(_, _)
\* lines 60-85: the loop over the listing, files being the dict so far; the
\* result is the dict, or the exception that ended the loop
ParseLines(files, ftp_listing) ==
    IF ftp_listing = <<>> THEN [exc |-> NoExc, files |-> files]
    ELSE LET line == Head(ftp_listing)
             parts == Split(line, 8)
         IN IF Strip(line) = <<>> THEN ParseLines(files, Tail(ftp_listing))
            ELSE IF Len(parts) < 9 THEN ParseLines(files, Tail(ftp_listing))
            ELSE IF SizeRaises(parts) THEN [exc |-> ValueError, files |-> files]
            ELSE ParseLines(DictSet(files, parts[9], ParseEntry(parts)), Tail(ftp_listing))

\* lines 56-87
_ftp_list_to_files(ftp_listing) == ParseLines(EmptyDict, ftp_listing)

\* line 108: ['.', '..'] + list(files.keys())
DOT == <<".">>
DOTDOT == <<".", ".">>

FileNames(files) == <<DOT, DOTDOT>> \o files.keys

\* ------------------------------------------------------------ error translation
Has550(e) == Contains(e.msg, R550)

Has530(e) == Contains(e.msg, R530)

\* readdir without the 530 branch
readdir_except_no530(e) ==
    IF e.kind = "error_perm"
    THEN IF Has550(e) THEN ENOENT ELSE EIO
    ELSE EIO

\* lines 115-124
readdir_except(e) ==
    IF e.kind = "error_perm"
    THEN IF Has550(e) THEN ENOENT ELSE IF Has530(e) THEN EACCES ELSE EIO
    ELSE EIO

\* lines 175-184
getattr_except(e) ==
    IF e.kind = "error_perm"
    THEN IF Has550(e) THEN ENOENT ELSE IF Has530(e) THEN EACCES ELSE EIO
    ELSE ENOENT

\* read without the 550 branch
read_except_no550(e) == EIO

\* lines 203-210
read_except(e) ==
    IF e.kind = "error_perm"
    THEN IF Has550(e) THEN ENOENT ELSE EIO
    ELSE EIO

\* lines 229-236
write_except(e) ==
    IF e.kind = "error_perm"
    THEN IF Has550(e) THEN EACCES ELSE EIO
    ELSE EIO

\* unlink with a FuseOSError passed on as it is
unlink_except_reraise(e) ==
    IF e.kind = "FuseOSError" THEN e.errno
    ELSE IF e.kind = "error_perm"
    THEN IF Has550(e) THEN ENOENT ELSE EACCES
    ELSE EIO

\* lines 249-256
unlink_except(e) ==
    IF e.kind = "error_perm"
    THEN IF Has550(e) THEN ENOENT ELSE EACCES
    ELSE EIO

\* ------------------------------------------------------------ state
VARIABLES
    remote,      \* the server's objects: path -> [exists, bytes]
    dir_cache,   \* self._dir_cache: a function from the cached paths to name lists
    sessions,    \* sessions _get_ftp_connection returned that were never closed
    last,        \* the last handler call: its arguments and what it gave the dispatcher
    threads,     \* the readdir calls in progress when the dispatcher runs them concurrently
    remote_dirs, \* the server's directories: path -> the lines LIST answers now
    origin       \* history: cached path -> the LIST reply its entry was computed from

\* the state only concurrent calls use
cvars == <<threads, remote_dirs, origin>>

vars == <<remote, dir_cache, sessions, last, threads, remote_dirs, origin>>

\* ------------------------------------------------------------ inputs
ROOT == "/"

\* The paths the handlers are called with.
Paths == {ROOT, "/a"}

\* The paths the server can hold an object at.
Files == {"/a", "/b"}

Byte == {104, 105}

Content == UNION {[1..n -> Byte] : n \in 0..MaxLen}

Absent == [exists |-> FALSE, bytes |-> <<>>]

Object(b) == [exists |-> TRUE, bytes |-> b]

\* A LIST line: permissions, links, owner, group, size, month, day, time, name.
Line9(perm, size, name) ==
    perm \o <<SP, "1", SP, "r", SP, "r", SP>> \o size \o <<SP, "J", SP, "1", SP, "0", SP>> \o name

\* The lines of the model, each with what it was built from: whether it has
\* the nine fields, and the permissions, size and name fields.
Well(perm, size, name, value) ==
    [text |-> Line9(perm, size, name), fields |-> 9, perm |-> perm, size |-> size,
     name |-> name, value |-> value]

Catalog ==
    { Well(<<"d", "r">>, <<"4", "0">>, <<".">>, 40),   \* a directory named "."
      Well(<<"-", "r">>, <<"7">>, <<"x">>, 7),         \* a file x of 7 bytes
      Well(<<"d", "r">>, <<"z">>, <<"x">>, 0),         \* a directory x, size not numeric
      Well(<<"-", "d">>, <<"1", "2">>, <<"y", SP, "d">>, 12),  \* a file "y d" of 12 bytes
      Well(<<"-", "r">>, <<SUP2>>, <<"w">>, 2),        \* a file w, size a superscript two
      [text |-> <<"d", "r", SP, "1", SP, "r", SP, "r", SP, "7", SP, "J", SP, "1", SP, "v">>,
       fields |-> 8, perm |-> <<"d", "r">>, size |-> <<"7">>, name |-> <<"v">>, value |-> 7],
      [text |-> <<SP>>, fields |-> 0, perm |-> <<>>, size |-> <<>>, name |-> <<>>, value |-> 0] }

LineSet == {c.text : c \in Catalog}

Listings == UNION {[1..n -> LineSet] : n \in 0..MaxLines}

\* The replies to the commands of one call: command number `at` raises `fault`,
\* the commands before it return, the ones after it are never sent.
Scripts(n) ==
    {[at |-> 0, fault |-> NoExc]} \cup {[at |-> i, fault |-> f] : i \in 1..n, f \in Faults}

Reply(s, i) == IF s.at = i THEN s.fault ELSE NoExc

\* What sendcmd gives for a probe (SIZE, MDTM): a reply line, or an exception.
Resp(text) == [exc |-> NoExc, resp |-> text]

Fails(e) == [exc |-> e, resp |-> <<>>]

NotSent == Fails(NoExc)

T213 == <<"2", "1", "3">>

MdtmStamp == <<"2", "0", "2", "5", "0", "8", "2", "5", "1", "5", "1", "7", "2", "3">>

SizeReplies ==
    { Resp(T213 \o <<SP, "5">>), Resp(T213 \o <<SP, "x">>), Resp(T213),
      Resp(<<"2", "0", "0", SP, "5">>),
      Fails(error_perm(R550)), Fails(error_perm(R530)), Fails(OSErr) }

MdtmReplies ==
    { Resp(T213 \o <<SP>> \o MdtmStamp), Resp(T213 \o <<SP, "x">>), Resp(T213),
      Fails(error_perm(R550)), Fails(OSErr) }

NoAttr == [st_mode |-> 0, st_nlink |-> 0, st_size |-> 0, st_mtime |-> <<>>]

\* A handler call as the dispatcher sees it: the arguments, the outcome (OK or
\* the errno of the FuseOSError raised), the value returned, and for the
\* record the exception the handler caught and the command that raised it.
Call(op, path) ==
    [op |-> op, path |-> path, size |-> 0, offset |-> 0, data |-> <<>>,
     outcome |-> OK, names |-> <<>>, bytes |-> <<>>, count |-> 0, attr |-> NoAttr,
     exc |-> NoExc, cmd |-> "", cached |-> FALSE, probes |-> <<NotSent, NotSent>>,
     listing |-> <<>>, files |-> EmptyDict]

Raised(call, errno, exc, cmd) == [call EXCEPT !.outcome = errno, !.exc = exc, !.cmd = cmd]

\* A readdir call in progress: where it stands, its path, the lines of the
\* LIST reply still in flight, the local list listing, and the whole reply.
Threads == {1, 2}

Idle == [pc |-> "idle", path |-> ROOT, reply |-> <<>>, listing |-> <<>>, snap |-> <<>>]

Init ==
    /\ remote = [f \in Files |-> IF f = "/b" THEN Object(<<105>>) ELSE Absent]
    /\ dir_cache = <<>>
    /\ sessions = 0
    /\ threads = [t \in Threads |-> Idle]
    /\ remote_dirs = [path \in Paths |-> <<>>]
    /\ origin = <<>>
    /\ last = Call("init", ROOT)

\* A session (connect and login returned) stays open when the call then
\* raised: the handlers close it nowhere but in the QUIT of the success path,
\* and ftplib's quit() closes only after a QUIT reply that did not raise.
Leak(s, exc) == IF s.at \notin {1, 2} /\ exc # NoExc THEN 1 ELSE 0

\* ------------------------------------------------------------ readdir
\* lines 89-124.  Commands: 1 connect, 2 login, 3 CWD (path != '/'), 4 LIST, 5 QUIT.
ReaddirCmd == <<"connect", "login", "CWD", "LIST", "QUIT">>

\* a lookup that never finds the path
CacheHitNever(cache, path) == FALSE

\* line 92: path in self._dir_cache
CacheHit(cache, path) == path \in DOMAIN cache

\* a store that extends the entry a path already has
CacheStoreExtend(cache, path, file_names) ==
    IF path \in DOMAIN cache THEN [cache EXCEPT ![path] = @ \o file_names]
    ELSE (path :> file_names) @@ cache

\* line 111: self._dir_cache[path] = file_names
CacheStore(cache, path, file_names) == (path :> file_names) @@ cache

\* a cache that is written whether or not the body raised
CacheAfterAlways(cache, path, exc, file_names) == CacheStore(cache, path, file_names)

\* lines 95-111: the store is the last statement of the try body, so the
\* cache is written only when nothing before it raised
CacheAfter(cache, path, exc, file_names) ==
    IF exc # NoExc THEN cache ELSE CacheStore(cache, path, file_names)

Readdir(path, listings) ==
    /\ UNCHANGED cvars
    /\ IF CacheHit(dir_cache, path)
       THEN \* lines 92-93
            /\ last' = [Call("readdir", path) EXCEPT !.names = dir_cache[path], !.cached = TRUE]
            /\ UNCHANGED <<remote, dir_cache, sessions>>
       ELSE /\ sessions < MaxOpen
            /\ \E s \in Scripts(5), listing \in listings :
                 /\ path = ROOT => s.at # 3
                 /\ s.at # 0 => listing = <<>>
                 /\ LET conn == _get_ftp_connection(Reply(s, 1), Reply(s, 2))
                        \* what the session raised, up to ftp.quit() of line 104
                        sexc == IF conn # NoExc THEN conn ELSE s.fault
                        parsed == _ftp_list_to_files(listing)
                        exc == IF sexc # NoExc THEN sexc ELSE parsed.exc
                        file_names == FileNames(parsed.files)
                        call == [Call("readdir", path) EXCEPT !.listing = listing]
                    IN /\ last' = IF exc # NoExc
                                  THEN Raised(call, readdir_except(exc), exc,
                                              IF s.at # 0 THEN ReaddirCmd[s.at] ELSE "parse")
                                  ELSE [call EXCEPT !.names = file_names, !.files = parsed.files]
                       /\ dir_cache' = CacheAfter(dir_cache, path, exc, file_names)
                       /\ sessions' = sessions + Leak(s, sexc)
                       /\ UNCHANGED remote

\* ------------------------------------------------------------ getattr
\* int(text): an optional sign and digits, else ValueError
IsIntStr(t) ==
    \/ IsDecimalStr(t)
    \/ t # <<>> /\ Head(t) \in {"+", "-"} /\ IsDecimalStr(Tail(t))

IntVal(t) ==
    IF Head(t) = "-" THEN 0 - DigitsVal(Tail(t))
    ELSE IF Head(t) = "+" THEN DigitsVal(Tail(t)) ELSE DigitsVal(t)

\* a probe that reports an unknown size as -1
FileSizeUnknown(size) ==
    IF size.exc # NoExc THEN 0 - 1
    ELSE LET parts == Split(size.resp, -1) IN
         IF StartsWith(size.resp, T213) /\ Len(parts) >= 2 /\ IsIntStr(parts[2])
         THEN IntVal(parts[2]) ELSE 0 - 1

\* lines 144-148: any exception of the probe or of the parse gives 0
FileSize(size) ==
    IF size.exc # NoExc THEN 0
    ELSE IF StartsWith(size.resp, T213)
         THEN LET parts == Split(size.resp, -1) IN
              IF Len(parts) < 2 THEN 0                 \* IndexError
              ELSE IF ~IsIntStr(parts[2]) THEN 0       \* ValueError
              ELSE IntVal(parts[2])
         ELSE 0

\* strptime(text, '%Y%m%d%H%M%S') accepts the 14-digit stamp
StrptimeOk(t) == Len(t) = 14 /\ IsDigitStr(t)

NOW == <<"n", "o", "w">>

\* lines 150-161: the stamp of the reply, or now on any exception
Mtime(mdtm) ==
    IF mdtm.exc # NoExc THEN NOW
    ELSE IF StartsWith(mdtm.resp, T213)
         THEN LET parts == Split(mdtm.resp, -1) IN
              IF Len(parts) < 2 THEN NOW               \* IndexError
              ELSE IF ~StrptimeOk(parts[2]) THEN NOW   \* ValueError
              ELSE parts[2]
         ELSE NOW

\* the record of a regular file for the root
RootAttrFile == [st_mode |-> S_IFREG + 420, st_nlink |-> 1, st_size |-> 0, st_mtime |-> NOW]

\* lines 131-138
RootAttr == [st_mode |-> S_IFDIR + 493, st_nlink |-> 2, st_size |-> 0, st_mtime |-> NOW]

\* lines 166-173
FileAttr(file_size, mtime) ==
    [st_mode |-> S_IFREG + 420, st_nlink |-> 1, st_size |-> file_size, st_mtime |-> mtime]

\* lines 126-184.  Commands: 1 connect, 2 login, then the probes SIZE and MDTM
\* (their exceptions are swallowed by the inner try blocks), 3 QUIT.
GetattrCmd == <<"connect", "login", "QUIT">>

Getattr(path, size, mdtm) ==
    /\ UNCHANGED cvars
    /\ IF path = ROOT
       THEN /\ size = NotSent /\ mdtm = NotSent
            /\ last' = [Call("getattr", path) EXCEPT !.attr = RootAttr]
            /\ UNCHANGED <<remote, dir_cache, sessions>>
       ELSE /\ sessions < MaxOpen
            /\ \E s \in Scripts(3) :
                 /\ IF s.at \in {1, 2} THEN size = NotSent /\ mdtm = NotSent
                                       ELSE size # NotSent /\ mdtm # NotSent
                 /\ LET conn == _get_ftp_connection(Reply(s, 1), Reply(s, 2))
                        exc == IF conn # NoExc THEN conn ELSE s.fault
                        call == [Call("getattr", path) EXCEPT !.probes = <<size, mdtm>>]
                    IN /\ last' = IF exc # NoExc
                                  THEN Raised(call, getattr_except(exc), exc, GetattrCmd[s.at])
                                  ELSE [call EXCEPT !.attr = FileAttr(FileSize(size), Mtime(mdtm))]
                       /\ sessions' = sessions + Leak(s, exc)
                       /\ UNCHANGED <<remote, dir_cache>>

\* ------------------------------------------------------------ read
\* lines 194-195: data is a block of bytes, and bytes has no encode(): the
\* attribute lookup raises before anything is appended.
store_data(content, data) == [exc |-> AttributeError, content |-> content]

RECURSIVE RetrLoop(_, _)
\* ftplib retrbinary: the callback on every non-empty block received
RetrLoop(content, rest) ==
    IF rest = <<>> THEN [exc |-> NoExc, content |-> content]
    ELSE LET n == IF Len(rest) < BlockSize THEN Len(rest) ELSE BlockSize
             r == store_data(content, SubSeq(rest, 1, n))
         IN IF r.exc # NoExc THEN r
            ELSE RetrLoop(r.content, SubSeq(rest, n + 1, Len(rest)))

Min(a, b) == IF a < b THEN a ELSE b

Max(a, b) == IF a > b THEN a ELSE b

\* line 201: content[offset:offset + size], offset and size not negative
Slice(content, offset, size) == SubSeq(content, offset + 1, Min(offset + size, Len(content)))

\* lines 186-210.  Commands: 1 connect, 2 login, 3 RETR, 4 QUIT.
ReadCmd == <<"connect", "login", "RETR", "QUIT">>

Read(path, size, offset, scripts) ==
    /\ UNCHANGED cvars
    /\ sessions < MaxOpen
    /\ \E s \in scripts :
         \* the server has nothing to send for an object it does not hold
         /\ ~remote[path].exists => s.at \in 1..3
         /\ LET conn == _get_ftp_connection(Reply(s, 1), Reply(s, 2))
                retr == IF s.at \in 1..3 THEN [exc |-> NoExc, content |-> <<>>]
                        ELSE RetrLoop(<<>>, remote[path].bytes)
                exc == IF conn # NoExc THEN conn
                       ELSE IF retr.exc # NoExc THEN retr.exc ELSE s.fault
                call == [Call("read", path) EXCEPT !.size = size, !.offset = offset]
            IN /\ retr.exc # NoExc => s.at = 0      \* QUIT is not sent then
               /\ last' = IF exc # NoExc
                          THEN Raised(call, read_except(exc), exc,
                                      IF retr.exc # NoExc THEN "callback" ELSE ReadCmd[s.at])
                          ELSE [call EXCEPT !.bytes = Slice(retr.content, offset, size)]
               /\ sessions' = sessions + Leak(s, exc)
               /\ UNCHANGED <<remote, dir_cache>>

\* ------------------------------------------------------------ write
\* lines 212-236.  Commands: 1 connect, 2 login, 3 STOR, 4 QUIT.
WriteCmd == <<"connect", "login", "STOR", "QUIT">>

\* a write that splices data into the old object at offset
StoredSpliced(old, data, offset) ==
    Object([i \in 1..Max(Len(old.bytes), offset + Len(data)) |->
              IF i > offset /\ i <= offset + Len(data) THEN data[i - offset]
              ELSE IF i <= Len(old.bytes) THEN old.bytes[i] ELSE 0])

\* lines 221-224: BytesIO(data) is sent whole by STOR, whatever the offset and
\* the object the server held
Stored(old, data, offset) == Object(data)

Write(path, data, offset, scripts) ==
    /\ UNCHANGED cvars
    /\ sessions < MaxOpen
    /\ \E s \in scripts :
         LET conn == _get_ftp_connection(Reply(s, 1), Reply(s, 2))
             exc == IF conn # NoExc THEN conn ELSE s.fault
             call == [Call("write", path) EXCEPT !.data = data, !.offset = offset]
         IN /\ last' = IF exc # NoExc
                       THEN Raised(call, write_except(exc), exc, WriteCmd[s.at])
                       ELSE [call EXCEPT !.count = Len(data)]
            \* a STOR that returned has replaced the object
            /\ remote' = IF s.at \in 1..3 THEN remote
                         ELSE [remote EXCEPT ![path] = Stored(remote[path], data, offset)]
            /\ sessions' = sessions + Leak(s, exc)
            /\ UNCHANGED dir_cache

\* ------------------------------------------------------------ truncate
\* a truncate that cuts the server's object to length
TruncateResized(path, length) ==
    /\ UNCHANGED cvars
    /\ last' = [Call("truncate", path) EXCEPT !.size = length]
    /\ remote' = [f \in Files |->
                    IF f = path /\ remote[f].exists
                    THEN Object(SubSeq(remote[f].bytes, 1, Min(length, Len(remote[f].bytes))))
                    ELSE remote[f]]
    /\ UNCHANGED <<dir_cache, sessions>>

\* lines 238-241: pass
Truncate(path, length) ==
    /\ UNCHANGED cvars
    /\ last' = [Call("truncate", path) EXCEPT !.size = length]
    /\ UNCHANGED <<remote, dir_cache, sessions>>

\* ------------------------------------------------------------ unlink
\* lines 243-256.  Commands: 1 connect, 2 login, 3 DELE, 4 QUIT.
UnlinkCmd == <<"connect", "login", "DELE", "QUIT">>

Unlink(path, scripts) ==
    /\ UNCHANGED cvars
    /\ sessions < MaxOpen
    /\ \E s \in scripts :
         \* the server cannot delete an object it does not hold
         /\ ~remote[path].exists => s.at \in 1..3
         /\ LET conn == _get_ftp_connection(Reply(s, 1), Reply(s, 2))
                exc == IF conn # NoExc THEN conn ELSE s.fault
            IN /\ last' = IF exc # NoExc
                          THEN Raised(Call("unlink", path), unlink_except(exc), exc,
                                      UnlinkCmd[s.at])
                          ELSE Call("unlink", path)
               \* a DELE that returned has removed the object
               /\ remote' = IF s.at \in 1..3 THEN remote
                            ELSE [remote EXCEPT ![path] = Absent]
               /\ sessions' = sessions + Leak(s, exc)
               /\ UNCHANGED dir_cache

\* ------------------------------------------------------------ the mounted filesystem
\* The whole filesystem, with few arguments per call.
SmallFiles == {"/a"}
SmallData == {<<>>, <<104>>}
SmallSize == {Fails(error_perm(R550)), Resp(T213 \o <<SP, "5">>)}
SmallMdtm == {Fails(OSErr), Resp(T213 \o <<SP>> \o MdtmStamp)}

SmallLines ==
    { Line9(<<"d", "r">>, <<"4", "0">>, <<".">>), Line9(<<"-", "r">>, <<SUP2>>, <<"w">>) }
SmallListings == UNION {[1..n -> SmallLines] : n \in 0..MaxLines}

Next ==
    \/ \E path \in Paths : Readdir(path, SmallListings)
    \/ \E path \in Paths, size \in SmallSize \cup {NotSent}, mdtm \in SmallMdtm \cup {NotSent} :
         Getattr(path, size, mdtm)
    \/ \E path \in SmallFiles : Read(path, MaxLen, 0, Scripts(4))
    \/ \E path \in SmallFiles, data \in SmallData, offset \in 0..1 :
         Write(path, data, offset, Scripts(4))
    \/ \E path \in Paths, length \in 0..1 : Truncate(path, length)
    \/ \E path \in SmallFiles : Unlink(path, Scripts(4))

Spec == Init /\ [][Next]_vars

\* The file handlers alone, with every buffer, size and offset up to the bounds
\* and few faults: no fault, a connect that fails, a 550 to the transfer or
\* delete command, a QUIT that fails.
\* The listing parser on every listing over the lines of the catalog, reached
\* through the directory listing of the root.
NextParse == Readdir(ROOT, Listings)

SpecParse == Init /\ [][NextParse]_vars

\* getattr on every reply to its two probes, next to a listing of the root that
\* reports the name a as a directory.
AttrListings == { <<Line9(<<"d", "r">>, <<"0">>, <<"a">>)>> }

NextAttr ==
    \/ Readdir(ROOT, AttrListings)
    \/ \E path \in Paths, size \in SizeReplies \cup {NotSent}, mdtm \in MdtmReplies \cup {NotSent} :
         Getattr(path, size, mdtm)

SpecAttr == Init /\ [][NextAttr]_vars

\* ------------------------------------------------------------ concurrent readdir
\* readdir (lines 89-124) run by a dispatcher with threads: each call has its
\* own session and its own local listing, and the calls interleave between
\* their accesses to the shared cache (the test of line 92, the store of line
\* 111) and between the lines of the LIST reply.  The server answers LIST with
\* the lines the directory holds at that moment.

\* the listings the server's directories change between
ConcListings ==
    { <<Line9(<<"d", "r">>, <<"4", "0">>, <<".">>)>>,
      <<Line9(<<"-", "r">>, <<"7">>, <<"x">>), Line9(<<"d", "r">>, <<"4", "0">>, <<".">>)>>,
      <<Line9(<<"-", "r">>, <<SUP2>>, <<"w">>)>> }

\* a change of a directory on the server
RemoteChange(path, listing) ==
    /\ remote_dirs[path] # listing
    /\ remote_dirs' = [remote_dirs EXCEPT ![path] = listing]
    /\ UNCHANGED <<remote, dir_cache, sessions, last, threads, origin>>

\* lines 92-100: the cache test, and on a miss the session and the CWD
T_Enter(t, path) ==
    /\ threads[t].pc = "idle"
    /\ IF CacheHit(dir_cache, path)
       THEN /\ last' = [Call("readdir", path) EXCEPT !.names = dir_cache[path], !.cached = TRUE]
            /\ UNCHANGED <<threads, sessions>>
       ELSE /\ sessions < MaxOpen
            /\ threads' = [threads EXCEPT ![t] = [Idle EXCEPT !.pc = "session", !.path = path]]
            /\ sessions' = sessions + 1
            /\ UNCHANGED last
    /\ UNCHANGED <<remote, dir_cache, remote_dirs, origin>>

\* line 103: LIST is sent and the server starts its reply
T_List(t) ==
    /\ threads[t].pc = "session"
    /\ threads' = [threads EXCEPT ![t].pc = "recv",
                                  ![t].reply = remote_dirs[threads[t].path],
                                  ![t].snap = remote_dirs[threads[t].path]]
    /\ UNCHANGED <<remote, dir_cache, sessions, last, remote_dirs, origin>>

\* line 103: LIST is rejected; the handler of lines 115-121 ends the call and
\* the session stays open
T_Rejected(t) ==
    /\ threads[t].pc = "session"
    /\ threads' = [threads EXCEPT ![t] = Idle]
    /\ last' = Raised(Call("readdir", threads[t].path), readdir_except(error_perm(R550)),
                      error_perm(R550), "LIST")
    /\ UNCHANGED <<remote, dir_cache, sessions, remote_dirs, origin>>

\* line 103: retrlines hands the next line to listing.append
T_Recv(t) ==
    /\ threads[t].pc = "recv" /\ threads[t].reply # <<>>
    /\ threads' = [threads EXCEPT ![t].listing = Append(@, Head(threads[t].reply)),
                                  ![t].reply = Tail(@)]
    /\ UNCHANGED <<remote, dir_cache, sessions, last, remote_dirs, origin>>

\* line 104: the reply is complete, ftp.quit()
T_Quit(t) ==
    /\ threads[t].pc = "recv" /\ threads[t].reply = <<>>
    /\ threads' = [threads EXCEPT ![t].pc = "parse"]
    /\ sessions' = sessions - 1
    /\ UNCHANGED <<remote, dir_cache, last, remote_dirs, origin>>

\* lines 107-113: the parse of the local listing, the store and the return
T_Store(t) ==
    /\ threads[t].pc = "parse"
    /\ LET path == threads[t].path
           parsed == _ftp_list_to_files(threads[t].listing)
           file_names == FileNames(parsed.files)
       IN /\ dir_cache' = CacheAfter(dir_cache, path, parsed.exc, file_names)
          /\ origin' = IF parsed.exc # NoExc THEN origin
                       ELSE (path :> threads[t].snap) @@ origin
          /\ last' = IF parsed.exc # NoExc
                     THEN Raised(Call("readdir", path), readdir_except(parsed.exc),
                                 parsed.exc, "parse")
                     ELSE [Call("readdir", path) EXCEPT !.names = file_names]
    /\ threads' = [threads EXCEPT ![t] = Idle]
    /\ UNCHANGED <<remote, sessions, remote_dirs>>

NextConc ==
    \/ \E path \in Paths, listing \in ConcListings : RemoteChange(path, listing)
    \/ \E t \in Threads, path \in Paths : T_Enter(t, path)
    \/ \E t \in Threads : T_List(t)
    \/ \E t \in Threads : T_Rejected(t)
    \/ \E t \in Threads : T_Recv(t)
    \/ \E t \in Threads : T_Quit(t)
    \/ \E t \in Threads : T_Store(t)

SpecConc == Init /\ [][NextConc]_vars

IOScripts ==
    { [at |-> 0, fault |-> NoExc], [at |-> 1, fault |-> OSErr],
      [at |-> 3, fault |-> error_perm(R550)], [at |-> 4, fault |-> OSErr] }

NextIO ==
    \/ \E path \in SmallFiles, size \in 0..(MaxLen + 1), offset \in 0..(MaxLen + 1) :
         Read(path, size, offset, IOScripts)
    \/ \E path \in SmallFiles, data \in Content, offset \in 0..1 :
         Write(path, data, offset, IOScripts)
    \/ \E path \in SmallFiles, length \in 0..1 : Truncate(path, length)
    \/ \E path \in SmallFiles : Unlink(path, IOScripts)

SpecIO == Init /\ [][NextIO]_vars

\* ------------------------------------------------------------ properties
\* The exception a call's handler caught came as a reply with this status.
PermStatus(e, status) == e.kind = "error_perm" /\ Status(e.msg) = status

\* Some command of the call (a probe included) was answered with this status.
Got(call, status) ==
    \/ PermStatus(call.exc, status)
    \/ \E i \in 1..2 : PermStatus(call.probes[i].exc, status)

\* No reply of the server raised: the call ran against a server that answered
\* every command with success.
ServerFine(call) == call.cmd \in {"", "callback"}

\* C1: round trip - a read of len(d) bytes at offset 0 that directly follows a
\* successful write(path, d, 0), on a server that answers every command with
\* success, succeeds and returns exactly d.
C1_RoundTrip ==
    [][ ( /\ last.op = "write" /\ last.outcome = OK /\ last.offset = 0
          /\ last'.op = "read" /\ last'.path = last.path
          /\ last'.size = Len(last.data) /\ last'.offset = 0
          /\ ServerFine(last') )
        => (last'.outcome = OK /\ last'.bytes = last.data) ]_vars

\* C2: every session a handler opened is closed when the handler returns, on
\* every exit path: after any sequence of calls no session is open.
C2_SessionsClosed == sessions = 0

\* C3 as claimed: a 550 reply to any command of any handler makes the call
\* fail with ENOENT.
C3_Original == Got(last, R550) => last.outcome = ENOENT

\* C3: a 550 reply to a command sent on the established session makes readdir,
\* read, unlink and (to QUIT) getattr fail with ENOENT and makes write fail
\* with EACCES; a 550 reply to a probe of getattr (SIZE, MDTM) is absorbed: if
\* nothing else raises, getattr succeeds, with size 0 for a failed SIZE.
C3_NotFound ==
    /\ PermStatus(last.exc, R550) =>
         last.outcome = IF last.op = "write" THEN EACCES ELSE ENOENT
    /\ (last.op = "getattr" /\ last.exc = NoExc /\ PermStatus(last.probes[1].exc, R550)) =>
         (last.outcome = OK /\ last.attr.st_size = 0)

C3_Witness ==
    /\ last.op = "write" /\ last.cmd = "STOR"
    /\ PermStatus(last.exc, R550) /\ last.outcome = EACCES

C5_Generic ==
    LET e == last.exc IN
    ( /\ e.kind \in {"error_perm", "error_temp", "OSError", "AttributeError"}
      /\ ~PermStatus(e, R550) /\ ~PermStatus(e, R530) )
    => IF last.op = "getattr"
       THEN /\ e.kind = "error_perm" => last.outcome = EIO
            /\ e.kind \in {"OSError", "AttributeError"} => last.outcome = ENOENT
       ELSE last.outcome = EIO

\* C6: when connect or login fails, the handler that asked for the session
\* ends with ECONNREFUSED.
C6_ConnRefused == last.cmd \in {"connect", "login"} => last.outcome = ECONNREFUSED

\* C7: every call ends in success or in one of ENOENT, EACCES, EIO, whatever
\* the server or the callback raised.
C7_Taxonomy == last.outcome \in {OK, ENOENT, EACCES, EIO}

C7_Witness == last.exc = FuseOSError(ECONNREFUSED) /\ last.outcome \in {ENOENT, EIO}

\* C8: a successful readdir returns "." and ".." and no name twice.
C8_Names ==
    (last.op = "readdir" /\ last.outcome = OK) =>
        /\ DOT \in Range(last.names) /\ DOTDOT \in Range(last.names)
        /\ \A i, j \in 1..Len(last.names) : last.names[i] = last.names[j] => i = j

\* C9: a write or unlink that reports an error has left the server's objects
\* as they were, and one that reports success has stored or deleted the object.
C9_AllOrNothing ==
    [][ last'.op \in {"write", "unlink"} =>
          IF last'.outcome # OK THEN remote' = remote
          ELSE remote'[last'.path] =
                 IF last'.op = "write" THEN Object(last'.data) ELSE Absent ]_vars

\* C10: on a server that answers every command with success, read(path, size,
\* offset) of an object of length L succeeds and returns its bytes offset ..
\* offset + size - 1 clamped to the object: max(0, min(size, L - offset)) bytes.
C10_Slice ==
    (last.op = "read" /\ ServerFine(last)) =>
        LET obj == remote[last.path].bytes
            n == Max(0, Min(last.size, Len(obj) - last.offset))
        IN /\ last.outcome = OK
           /\ last.bytes = [i \in 1..n |-> obj[last.offset + i]]

\* C11: a write that succeeds, at any offset, leaves exactly its data as the
\* object at path and returns len(data); no other object of the server and no
\* entry of the directory cache changes.
C11_WholeObject ==
    [][ (last'.op = "write" /\ last'.outcome = OK) =>
          /\ remote'[last'.path] = Object(last'.data)
          /\ last'.count = Len(last'.data)
          /\ \A f \in Files \ {last'.path} : remote'[f] = remote[f]
          /\ dir_cache' = dir_cache ]_vars

C11_Witness ==
    /\ last.op = "write" /\ last.outcome = OK /\ last.offset = 1
    /\ remote[last.path] = Object(last.data) /\ DOMAIN dir_cache # {}

\* C12: truncate succeeds for every path and length, in every state, opens no
\* session and leaves the server's objects and the directory cache as they
\* were (so that no later read, readdir or getattr can tell it was called).
C12_TruncateNoOp ==
    /\ [](\A path \in Paths, length \in 0..1 : ENABLED Truncate(path, length))
    /\ [][ last'.op = "truncate" =>
             /\ last'.outcome = OK /\ last'.cmd = ""
             /\ remote' = remote /\ dir_cache' = dir_cache /\ sessions' = sessions ]_vars

C12_Witness ==
    /\ last.op = "truncate" /\ last.path = "/a" /\ last.size = 0 /\ last.outcome = OK
    /\ remote["/a"] = Object(<<104>>) /\ DOMAIN dir_cache # {}

\* C13: getattr("/") succeeds in every state, also when no session can be
\* had, with the directory record (S_IFDIR | 0755, 2 links, size 0); it opens
\* no session and sends no command.
C13_RootAttr ==
    /\ [](ENABLED Getattr(ROOT, NotSent, NotSent))
    /\ [][ (last'.op = "getattr" /\ last'.path = ROOT) =>
             /\ last'.outcome = OK
             /\ last'.attr.st_mode = S_IFDIR + 493
             /\ last'.attr.st_nlink = 2 /\ last'.attr.st_size = 0
             /\ last'.cmd = "" /\ last'.probes = <<NotSent, NotSent>>
             /\ sessions' = sessions ]_vars

C13_Witness ==
    /\ last.op = "getattr" /\ last.path = ROOT /\ last.outcome = OK
    /\ last.attr.st_mode = S_IFDIR + 493 /\ sessions = MaxOpen

\* The catalog entry a listing line was built from.
Entry(line) == CHOOSE c \in Catalog : c.text = line

\* The last line of the listing that carries the name.
LastOf(listing, name) ==
    Entry(listing[CHOOSE i \in 1..Len(listing) :
                    /\ Entry(listing[i]).fields = 9 /\ Entry(listing[i]).name = name
                    /\ \A j \in (i + 1)..Len(listing) :
                         ~(Entry(listing[j]).fields = 9 /\ Entry(listing[j]).name = name)])

\* C14: whatever lines the LIST reply holds, the parse yields an entry exactly
\* for the names of the lines with nine fields, blank and shorter lines being
\* skipped without ending the parse; an entry is a directory exactly when the
\* permissions of the last line with its name start with d, and its size is
\* the numeric value of that line's size field, or 0 when it is not numeric.
C14_Parse ==
    (last.op = "readdir" /\ ~last.cached /\ last.cmd \in {"", "parse"}) =>
        /\ last.outcome = OK
        /\ Range(last.files.keys) =
             {Entry(last.listing[i]).name :
                i \in {j \in 1..Len(last.listing) : Entry(last.listing[j]).fields = 9}}
        /\ \A k \in 1..Len(last.files.keys) :
             LET c == LastOf(last.listing, last.files.keys[k])
             IN /\ last.files.info[k].is_dir = (Head(c.perm) = "d")
                /\ last.files.info[k].size = c.value

\* C15: once a readdir of a path has succeeded, its entry stays in the cache
\* unchanged through every later operation, and every later readdir of that
\* path is possible without a session and returns the stored names.
C15_CacheForever ==
    /\ [](\A path \in DOMAIN dir_cache : ENABLED Readdir(path, SmallListings))
    /\ [][ /\ \A path \in DOMAIN dir_cache :
                path \in DOMAIN dir_cache' /\ dir_cache'[path] = dir_cache[path]
           /\ (last'.op = "readdir" /\ last'.outcome = OK) =>
                (last'.path \in DOMAIN dir_cache' /\ dir_cache'[last'.path] = last'.names)
           /\ (last'.op = "readdir" /\ last'.path \in DOMAIN dir_cache) =>
                /\ last'.outcome = OK /\ last'.names = dir_cache[last'.path]
                /\ last'.cached /\ last'.cmd = "" /\ sessions' = sessions ]_vars

\* a readdir of /a served from the cache after /a was written on the remote,
\* with no session left to open
C15_Witness ==
    /\ last.op = "readdir" /\ last.path = "/a" /\ last.cached /\ last.outcome = OK
    /\ last.names = <<DOT, DOTDOT>>
    /\ remote["/a"] = Object(<<104>>) /\ sessions = MaxOpen

\* C16: a getattr of a non-root path whose SIZE or MDTM probe met a transport
\* fault ends with an error outcome.
C16_ProbeFault ==
    (last.op = "getattr" /\ last.path # ROOT
        /\ (last.probes[1].exc = OSErr \/ last.probes[2].exc = OSErr)) =>
        last.outcome # OK

\* The size probe was answered with a non-success reply, or with a 213 reply
\* whose payload is missing or not a number.
SizeUnusable(probe) ==
    \/ probe.exc.kind \in {"error_perm", "error_temp"}
    \/ probe.exc = NoExc /\ probe.resp \in {T213, T213 \o <<SP, "x">>}

\* C17: on a non-root path with the session established and closed without a
\* fault, a size probe that is rejected or carries no number does not fail
\* getattr, which returns a regular file of mode 0644, one link and size 0;
\* and every successful getattr of a non-root path returns a regular file.
C17_SizeDefault ==
    (last.op = "getattr" /\ last.path # ROOT) =>
        /\ (SizeUnusable(last.probes[1]) /\ last.cmd = "") =>
              /\ last.outcome = OK
              /\ last.attr = [st_mode |-> S_IFREG + 420, st_nlink |-> 1, st_size |-> 0,
                              st_mtime |-> last.attr.st_mtime]
        /\ last.outcome = OK =>
              (last.attr.st_mode = S_IFREG + 420 /\ last.attr.st_nlink = 1)

\* getattr of /a with SIZE rejected by 550, while the cached listing of the
\* root holds the name a, which the listing reported as a directory
C17_Witness ==
    /\ last.op = "getattr" /\ last.path = "/a" /\ last.outcome = OK
    /\ last.probes[1] = Fails(error_perm(R550))
    /\ last.attr.st_mode = S_IFREG + 420 /\ last.attr.st_size = 0
    /\ ROOT \in DOMAIN dir_cache /\ dir_cache[ROOT] = <<DOT, DOTDOT, <<"a">>>>

\* C19: the cache starts empty and changes only in a step of a readdir that
\* succeeded on a path not yet cached, which adds the names it returns under
\* that path; a failing readdir, getattr, read, write, truncate and unlink
\* leave the cache as it was.
C19_CacheFrame ==
    /\ dir_cache = <<>>
    /\ [][ /\ dir_cache' # dir_cache =>
                /\ last'.op = "readdir" /\ last'.outcome = OK /\ ~last'.cached
                /\ last'.path \notin DOMAIN dir_cache
                /\ dir_cache' = (last'.path :> last'.names) @@ dir_cache
           /\ (last'.op = "readdir" /\ last'.outcome # OK) => dir_cache' = dir_cache
           /\ last'.op \in {"getattr", "read", "write", "truncate", "unlink"} =>
                dir_cache' = dir_cache ]_vars

\* a readdir of /a that failed after the root was cached
C19_Witness ==
    /\ last.op = "readdir" /\ last.path = "/a" /\ last.outcome = EIO /\ last.cmd = "LIST"
    /\ DOMAIN dir_cache = {ROOT}

\* the names of the complete parse of one LIST reply, after "." and ".."
NamesOf(snapshot) == <<DOT, DOTDOT>> \o _ftp_list_to_files(snapshot).files.keys

\* C18: with readdir calls interleaved with each other and with changes of the
\* server's directories, every cache entry is at every moment "." and ".."
\* followed by the complete parse of one single LIST reply for its path, and a
\* step that changes the cache sets one whole entry to such a value and leaves
\* the other entries alone.
C18_WholeEntries ==
    /\ [](\A path \in DOMAIN dir_cache :
            /\ path \in DOMAIN origin
            /\ _ftp_list_to_files(origin[path]).exc = NoExc
            /\ dir_cache[path] = NamesOf(origin[path]))
    /\ [][ \A t \in Threads :
             (threads[t].pc = "recv" /\ threads'[t].pc = "recv") => threads'[t].snap = threads[t].snap ]_vars
    /\ [][ dir_cache' # dir_cache =>
             \E t \in Threads :
                /\ threads[t].pc = "parse"
                /\ dir_cache' = (threads[t].path :> NamesOf(threads[t].snap)) @@ dir_cache ]_vars

\* the root is cached from one reply while the other call, which missed the
\* cache before that store, holds a half-received listing of another reply for
\* the root, and the server's directory has changed again since
C18_Witness ==
    /\ ROOT \in DOMAIN dir_cache /\ dir_cache[ROOT] = <<DOT, DOTDOT, DOT>>
    /\ last.op = "readdir" /\ last.path = ROOT /\ last.outcome = OK /\ ~last.cached
    /\ \E t \in Threads :
         /\ threads[t].pc = "recv" /\ threads[t].path = ROOT
         /\ threads[t].listing # <<>> /\ threads[t].reply # <<>>
         /\ threads[t].snap # origin[ROOT]
         /\ remote_dirs[ROOT] \notin {origin[ROOT], threads[t].snap}

====
